---- MODULE Spec2Model ----
(***************************************************************************)
(* State-machine model of contracts/BiometricRegistry.sol: the replicated  *)
(* fuzzy-commitment identity registry.  Every external function is one     *)
(* action, enabled when the call passes its modifiers and requires; a call *)
(* that reverts changes nothing and is a stuttering step.  The revert      *)
(* reason of a call is the value of its ...Revert operator, which walks    *)
(* the modifiers and requires in source order.  View functions are         *)
(* operators on the state.  Transactions are applied one at a time.        *)
(***************************************************************************)
EXTENDS Integers, Sequences, FiniteSets, TLC

(***************************************************************************)
(* Bounds of the model.                                                    *)
(***************************************************************************)
\* number of committed (state-changing) transactions explored
MaxEvents == 3

(***************************************************************************)
(* Input domains.                                                          *)
(***************************************************************************)
NullAddress == 0
Addresses == {0, 1, 2, 3}
Callers == Addresses \ {NullAddress}
Deployer == 1

\* bytes32 subject ids and commitment hashes; 0 is bytes32(0)
SubjectIds == {0, 1, 2}
Hashes == {0, 1, 2}

\* enum BiometricType
FACIAL == 0
FINGERPRINT == 1
IRIS == 2
MULTIMODAL == 3
BiometricTypes == {FACIAL, FINGERPRINT, IRIS, MULTIMODAL}

\* sample (delta, templateCID, biometricType) arguments of enrollSubject
Payloads ==
  { [delta |-> "d1", templateCID |-> "cid1", biometricType |-> FACIAL],
    [delta |-> "d2", templateCID |-> "cid2", biometricType |-> MULTIMODAL] }

Names == {"Auth Center"}
\* sample (success, reason) arguments of logAuthentication
Outcomes ==
  { [success |-> TRUE, reason |-> "match"],
    [success |-> FALSE, reason |-> "liveness check failed"] }
RecordIds == 0..(MaxEvents + 1)

(***************************************************************************)
(* Revert reasons (the require messages) and the success status.           *)
(***************************************************************************)
OK == "ok"
ErrNotOwner == "BiometricRegistry: caller is not owner"
ErrNotAuthorized == "BiometricRegistry: not authorized node"
ErrNotEC == "BiometricRegistry: not an enrollment center"
ErrNotFound == "BiometricRegistry: subject not found"
ErrNotActive == "BiometricRegistry: subject not active"
ErrInvalidId == "BiometricRegistry: invalid subject ID"
ErrInvalidHash == "BiometricRegistry: invalid commitment hash"
ErrDuplicate == "BiometricRegistry: subject already exists"
ErrInvalidAddress == "BiometricRegistry: invalid address"
ErrNodeExists == "BiometricRegistry: node exists"
ErrNodeNotFound == "BiometricRegistry: node not found"
ErrModifyOwner == "BiometricRegistry: cannot modify owner"
ErrInvalidNewOwner == "BiometricRegistry: invalid new owner"

(***************************************************************************)
(* Zero values of the storage structs (what an unset mapping slot reads).  *)
(***************************************************************************)
ZeroSubject ==
  [subjectId |-> 0, commitmentHash |-> 0, delta |-> "", templateCID |-> "",
   biometricType |-> FACIAL, enrolledBy |-> NullAddress, enrolledAt |-> 0,
   updatedAt |-> 0, isActive |-> FALSE]

ZeroNode ==
  [nodeId |-> 0, name |-> "", nodeAddress |-> NullAddress,
   isEnrollmentCenter |-> FALSE, isAuthorized |-> FALSE, registeredAt |-> 0,
   enrollmentCount |-> 0]

ZeroAuthRecord ==
  [subjectId |-> 0, verifier |-> NullAddress, success |-> FALSE, reason |-> "",
   timestamp |-> 0]

VARIABLES
  owner,              \* _owner
  subjectCount,       \* _subjectCount
  nodeCount,          \* _nodeCount
  authRecordCount,    \* _authRecordCount
  subjects,           \* _subjects
  nodes,              \* _nodes
  authRecords,        \* _authRecords
  subjectExists,      \* _subjectExists
  nodeEnrollments,    \* _nodeEnrollments
  allSubjectIds,      \* _allSubjectIds
  allNodeAddresses,   \* _allNodeAddresses
  events,             \* the emitted event log
  now,                \* block.timestamp
  last,               \* receipt of the most recent committed transaction
  codec               \* the off-registry Commitment Codec computation

storage ==
  <<owner, subjectCount, nodeCount, authRecordCount, subjects, nodes,
    authRecords, subjectExists, nodeEnrollments, allSubjectIds,
    allNodeAddresses>>

vars ==
  <<owner, subjectCount, nodeCount, authRecordCount, subjects, nodes,
    authRecords, subjectExists, nodeEnrollments, allSubjectIds,
    allNodeAddresses, events, now, last, codec>>

(***************************************************************************)
(* The receipt of the most recent committed transaction: the call, its     *)
(* arguments, and `pre`, the Subject stored under subjectId when the call  *)
(* started.                                                                *)
(***************************************************************************)
Receipt(op, caller) ==
  [op |-> op, caller |-> caller, subjectId |-> 0, hash |-> 0,
   addr |-> NullAddress, flag |-> FALSE, recordId |-> 0, pre |-> ZeroSubject]

SubjectReceipt(op, caller, subjectId, hash) ==
  [Receipt(op, caller) EXCEPT
     !.subjectId = subjectId, !.hash = hash, !.pre = subjects[subjectId]]

NodeReceipt(op, caller, addr, flag) ==
  [Receipt(op, caller) EXCEPT !.addr = addr, !.flag = flag]

(***************************************************************************)
(* Commitment Codec (spec.md 4.1): the fuzzy-commitment functions that run  *)
(* off the registry.  The error-correcting code is a repetition code: each  *)
(* key bit is sent Rep times and decoded by majority, which corrects up to  *)
(* ECCThreshold flipped bits anywhere in the codeword.                      *)
(***************************************************************************)
KeyLen == 2
Rep == 3
CodeLen == KeyLen * Rep
ECCThreshold == (Rep - 1) \div 2

Bits == {0, 1}
Keys == [1..KeyLen -> Bits]
Vectors == [1..CodeLen -> Bits]

Xor(a, b) == [i \in DOMAIN a |-> (a[i] + b[i]) % 2]

HammingDistance(a, b) == Cardinality({i \in DOMAIN a : a[i] # b[i]})

ecc_encode(secretKey) ==
  [i \in 1..CodeLen |-> secretKey[((i - 1) \div Rep) + 1]]

\* variant: the decoder reads the first bit of each block, correcting nothing
ecc_decode_FirstBit(codeword) ==
  [j \in 1..KeyLen |-> codeword[(j - 1) * Rep + 1]]

ecc_decode(codeword) ==
  [j \in 1..KeyLen |->
     IF 2 * Cardinality({i \in 1..Rep : codeword[(j - 1) * Rep + i] = 1}) > Rep
     THEN 1 ELSE 0]

\* H: a collision-resistant hash, here an injection of the keys into the
\* non-zero hash values
RECURSIVE KeyValue(_, _)
KeyValue(secretKey, j) ==
  IF j = 0 THEN 0 ELSE secretKey[j] + 2 * KeyValue(secretKey, j - 1)

H(secretKey) == 1 + KeyValue(secretKey, KeyLen)

commit(secretKey, featureVector) ==
  [commitmentHash |-> H(secretKey),
   delta |-> Xor(featureVector, ecc_encode(secretKey))]

recover(delta, freshFeatureVector) ==
  ecc_decode(Xor(freshFeatureVector, delta))

verify(storedHash, candidateKey) == H(candidateKey) = storedHash

ZeroKey == [j \in 1..KeyLen |-> 0]
ZeroVector == [i \in 1..CodeLen |-> 0]

\* no codec computation has been started
CodecIdle ==
  [stage |-> "idle", secretKey |-> ZeroKey, featureVector |-> ZeroVector,
   commitmentHash |-> 0, delta |-> ZeroVector,
   freshFeatureVector |-> ZeroVector, candidateKey |-> ZeroKey,
   accepted |-> FALSE]

(***************************************************************************)
(* Modifiers.                                                              *)
(***************************************************************************)
onlyOwner(caller) == caller = owner

\* variant: any registered node passes, revoked or not
onlyAuthorizedNode_Registered(caller) ==
  nodes[caller].nodeAddress # NullAddress

onlyAuthorizedNode(caller) == nodes[caller].isAuthorized

\* variant: the enrollment-center flag is not checked
onlyEnrollmentCenter_AnyAuthorized(caller) == nodes[caller].isAuthorized

onlyEnrollmentCenter(caller) ==
  nodes[caller].isAuthorized /\ nodes[caller].isEnrollmentCenter

subjectMustExist(subjectId) == subjectExists[subjectId]

\* variant: the activity check is skipped
subjectMustBeActiveIn_Skipped(ss, subjectId) == TRUE

\* ss is the _subjects mapping the modifier reads
subjectMustBeActiveIn(ss, subjectId) == ss[subjectId].isActive

subjectMustBeActive(subjectId) == subjectMustBeActiveIn(subjects, subjectId)

(***************************************************************************)
(* Constructor.                                                            *)
(***************************************************************************)
\* variant: the constructor does not push the deployer to _allNodeAddresses
Init_NoEnumeration ==
  /\ owner = Deployer
  /\ subjectCount = 0
  /\ nodeCount = 1
  /\ authRecordCount = 0
  /\ subjects = [s \in SubjectIds |-> ZeroSubject]
  /\ now = 1
  /\ nodes = [a \in Addresses |->
               IF a = Deployer
               THEN [nodeId |-> 1, name |-> "Main Enrollment Center",
                     nodeAddress |-> Deployer, isEnrollmentCenter |-> TRUE,
                     isAuthorized |-> TRUE, registeredAt |-> 1,
                     enrollmentCount |-> 0]
               ELSE ZeroNode]
  /\ authRecords = [i \in RecordIds |-> ZeroAuthRecord]
  /\ subjectExists = [s \in SubjectIds |-> FALSE]
  /\ nodeEnrollments = [a \in Addresses |-> <<>>]
  /\ allSubjectIds = <<>>
  /\ allNodeAddresses = <<>>
  /\ events = << [type |-> "NodeRegistered", nodeId |-> 1,
                  nodeAddress |-> Deployer, name |-> "Main Enrollment Center",
                  isEnrollmentCenter |-> TRUE, timestamp |-> 1] >>
  /\ last = Receipt("constructor", Deployer)
  /\ codec = CodecIdle

Init ==
  /\ owner = Deployer
  /\ subjectCount = 0
  /\ nodeCount = 1
  /\ authRecordCount = 0
  /\ subjects = [s \in SubjectIds |-> ZeroSubject]
  /\ now = 1
  /\ nodes = [a \in Addresses |->
               IF a = Deployer
               THEN [nodeId |-> 1, name |-> "Main Enrollment Center",
                     nodeAddress |-> Deployer, isEnrollmentCenter |-> TRUE,
                     isAuthorized |-> TRUE, registeredAt |-> 1,
                     enrollmentCount |-> 0]
               ELSE ZeroNode]
  /\ authRecords = [i \in RecordIds |-> ZeroAuthRecord]
  /\ subjectExists = [s \in SubjectIds |-> FALSE]
  /\ nodeEnrollments = [a \in Addresses |-> <<>>]
  /\ allSubjectIds = <<>>
  /\ allNodeAddresses = <<Deployer>>
  /\ events = << [type |-> "NodeRegistered", nodeId |-> 1,
                  nodeAddress |-> Deployer, name |-> "Main Enrollment Center",
                  isEnrollmentCenter |-> TRUE, timestamp |-> 1] >>
  /\ last = Receipt("constructor", Deployer)
  /\ codec = CodecIdle

\* block.timestamp of the block that includes the next committed transaction:
\* every committed transaction is mined in a block of its own, and block
\* timestamps strictly increase
BlockTimes == {now + 1}

\* variant: the event is put in front of the stream instead of at its end
Emit_Prepend(e) == events' = <<e>> \o events

Emit(e) == events' = Append(events, e)

\* room for one more committed transaction (the constructor emitted one event)
CanCommit == Len(events) <= MaxEvents

(***************************************************************************)
(* Subject management.                                                     *)
(***************************************************************************)
\* variant: the duplicate check is missing
enrollSubjectRevert_NoDuplicateCheck(caller, subjectId, commitmentHash) ==
  IF ~(nodes[caller].isAuthorized /\ nodes[caller].isEnrollmentCenter)
  THEN ErrNotEC
  ELSE IF subjectId = 0 THEN ErrInvalidId
  ELSE IF commitmentHash = 0 THEN ErrInvalidHash
  ELSE OK

\* variant: without require(subjectId != bytes32(0))
enrollSubjectRevert_NoIdCheck(caller, subjectId, commitmentHash) ==
  IF ~onlyEnrollmentCenter(caller) THEN ErrNotEC
  ELSE IF commitmentHash = 0 THEN ErrInvalidHash
  ELSE IF subjectExists[subjectId] THEN ErrDuplicate
  ELSE OK

\* the modifier and the requires of enrollSubject, in source order
enrollSubjectRevert(caller, subjectId, commitmentHash) ==
  IF ~onlyEnrollmentCenter(caller) THEN ErrNotEC
  ELSE IF subjectId = 0 THEN ErrInvalidId
  ELSE IF commitmentHash = 0 THEN ErrInvalidHash
  ELSE IF subjectExists[subjectId] THEN ErrDuplicate
  ELSE OK

\* variant: the new record is left inactive
NewSubject_Inactive(subjectId, commitmentHash, p, caller, ts) ==
  [subjectId |-> subjectId, commitmentHash |-> commitmentHash,
   delta |-> p.delta, templateCID |-> p.templateCID,
   biometricType |-> p.biometricType, enrolledBy |-> caller,
   enrolledAt |-> ts, updatedAt |-> ts, isActive |-> FALSE]

NewSubject(subjectId, commitmentHash, p, caller, ts) ==
  [subjectId |-> subjectId, commitmentHash |-> commitmentHash,
   delta |-> p.delta, templateCID |-> p.templateCID,
   biometricType |-> p.biometricType, enrolledBy |-> caller,
   enrolledAt |-> ts, updatedAt |-> ts, isActive |-> TRUE]

\* variant: without _nodeEnrollments[msg.sender].push(subjectId)
EnrollSubject_NoIndex(caller, subjectId, commitmentHash, p) ==
  /\ enrollSubjectRevert(caller, subjectId, commitmentHash) = OK
  /\ CanCommit
  /\ \E ts \in BlockTimes :
       /\ now' = ts
       /\ subjects' = [subjects EXCEPT ![subjectId] =
              NewSubject(subjectId, commitmentHash, p, caller, ts)]
       /\ Emit([type |-> "SubjectEnrolled", subjectId |-> subjectId,
                enrolledBy |-> caller, biometricType |-> p.biometricType,
                timestamp |-> ts])
  /\ subjectExists' = [subjectExists EXCEPT ![subjectId] = TRUE]
  /\ allSubjectIds' = Append(allSubjectIds, subjectId)
  /\ nodes' = [nodes EXCEPT ![caller].enrollmentCount = @ + 1]
  /\ subjectCount' = subjectCount + 1
  /\ last' = SubjectReceipt("enrollSubject", caller, subjectId,
                            commitmentHash)
  /\ UNCHANGED <<codec, owner, nodeCount, authRecordCount, authRecords,
                 allNodeAddresses, nodeEnrollments>>

EnrollSubject(caller, subjectId, commitmentHash, p) ==
  /\ enrollSubjectRevert(caller, subjectId, commitmentHash) = OK
  /\ CanCommit
  /\ \E ts \in BlockTimes :
       /\ now' = ts
       /\ subjects' = [subjects EXCEPT ![subjectId] =
              NewSubject(subjectId, commitmentHash, p, caller, ts)]
       /\ Emit([type |-> "SubjectEnrolled", subjectId |-> subjectId,
                enrolledBy |-> caller, biometricType |-> p.biometricType,
                timestamp |-> ts])
  /\ subjectExists' = [subjectExists EXCEPT ![subjectId] = TRUE]
  /\ allSubjectIds' = Append(allSubjectIds, subjectId)
  /\ nodeEnrollments' = [nodeEnrollments EXCEPT ![caller] =
                           Append(@, subjectId)]
  /\ nodes' = [nodes EXCEPT ![caller].enrollmentCount = @ + 1]
  /\ subjectCount' = subjectCount + 1
  /\ last' = SubjectReceipt("enrollSubject", caller, subjectId,
                            commitmentHash)
  /\ UNCHANGED <<codec, owner, nodeCount, authRecordCount, authRecords,
                 allNodeAddresses>>

\* the modifiers and the require of updateSubject, in source order
\* variant: the hash is validated before the subject modifiers
updateSubjectRevert_HashFirst(caller, subjectId, commitmentHash) ==
  IF ~onlyEnrollmentCenter(caller) THEN ErrNotEC
  ELSE IF commitmentHash = 0 THEN ErrInvalidHash
  ELSE IF ~subjectMustExist(subjectId) THEN ErrNotFound
  ELSE IF ~subjectMustBeActive(subjectId) THEN ErrNotActive
  ELSE OK

\* variant: without require(commitmentHash != bytes32(0))
updateSubjectRevert_NoHashCheck(caller, subjectId, commitmentHash) ==
  IF ~onlyEnrollmentCenter(caller) THEN ErrNotEC
  ELSE IF ~subjectMustExist(subjectId) THEN ErrNotFound
  ELSE IF ~subjectMustBeActive(subjectId) THEN ErrNotActive
  ELSE OK

updateSubjectRevert(caller, subjectId, commitmentHash) ==
  IF ~onlyEnrollmentCenter(caller) THEN ErrNotEC
  ELSE IF ~subjectMustExist(subjectId) THEN ErrNotFound
  ELSE IF ~subjectMustBeActive(subjectId) THEN ErrNotActive
  ELSE IF commitmentHash = 0 THEN ErrInvalidHash
  ELSE OK

\* variant: the update also overwrites the biometric type
UpdatedSubject_Retyped(s, commitmentHash, p, ts) ==
  [s EXCEPT !.commitmentHash = commitmentHash, !.delta = p.delta,
            !.templateCID = p.templateCID, !.updatedAt = ts,
            !.biometricType = p.biometricType]

UpdatedSubject(s, commitmentHash, p, ts) ==
  [s EXCEPT !.commitmentHash = commitmentHash, !.delta = p.delta,
            !.templateCID = p.templateCID, !.updatedAt = ts]

UpdateSubject(caller, subjectId, commitmentHash, p) ==
  /\ updateSubjectRevert(caller, subjectId, commitmentHash) = OK
  /\ CanCommit
  /\ \E ts \in BlockTimes :
       /\ now' = ts
       /\ subjects' = [subjects EXCEPT ![subjectId] =
              UpdatedSubject(@, commitmentHash, p, ts)]
       /\ Emit([type |-> "SubjectUpdated", subjectId |-> subjectId,
                updatedBy |-> caller, timestamp |-> ts])
  /\ last' = SubjectReceipt("updateSubject", caller, subjectId,
                            commitmentHash)
  /\ UNCHANGED <<codec, owner, subjectCount, nodeCount, authRecordCount, nodes,
                 authRecords, subjectExists, nodeEnrollments, allSubjectIds,
                 allNodeAddresses>>

\* the modifiers of deactivateSubject, in source order
deactivateSubjectRevert(caller, subjectId) ==
  IF ~onlyEnrollmentCenter(caller) THEN ErrNotEC
  ELSE IF ~subjectMustExist(subjectId) THEN ErrNotFound
  ELSE OK

DeactivatedSubject(s, ts) == [s EXCEPT !.isActive = FALSE, !.updatedAt = ts]

DeactivateSubject(caller, subjectId) ==
  /\ deactivateSubjectRevert(caller, subjectId) = OK
  /\ CanCommit
  /\ \E ts \in BlockTimes :
       /\ now' = ts
       /\ subjects' = [subjects EXCEPT ![subjectId] =
                         DeactivatedSubject(@, ts)]
       /\ Emit([type |-> "SubjectDeactivated", subjectId |-> subjectId,
                deactivatedBy |-> caller, timestamp |-> ts])
  /\ last' = SubjectReceipt("deactivateSubject", caller, subjectId, 0)
  /\ UNCHANGED <<codec, owner, subjectCount, nodeCount, authRecordCount, nodes,
                 authRecords, subjectExists, nodeEnrollments, allSubjectIds,
                 allNodeAddresses>>

\* the modifiers of reactivateSubject, in source order
\* variant: without the modifier subjectMustExist
reactivateSubjectRevert_NoExistCheck(caller, subjectId) ==
  IF ~onlyEnrollmentCenter(caller) THEN ErrNotEC ELSE OK

\* variant: reactivation is refused for a subject that is already active
reactivateSubjectRevert_InactiveOnly(caller, subjectId) ==
  IF ~onlyEnrollmentCenter(caller) THEN ErrNotEC
  ELSE IF ~subjectMustExist(subjectId) THEN ErrNotFound
  ELSE IF subjectMustBeActive(subjectId) THEN ErrNotActive
  ELSE OK

reactivateSubjectRevert(caller, subjectId) ==
  IF ~onlyEnrollmentCenter(caller) THEN ErrNotEC
  ELSE IF ~subjectMustExist(subjectId) THEN ErrNotFound
  ELSE OK

\* variant: reactivation stamps the enrollment time again
ReactivatedSubject_Restamped(s, ts) ==
  [s EXCEPT !.isActive = TRUE, !.updatedAt = ts, !.enrolledAt = ts]

ReactivatedSubject(s, ts) == [s EXCEPT !.isActive = TRUE, !.updatedAt = ts]

ReactivateSubject(caller, subjectId) ==
  /\ reactivateSubjectRevert(caller, subjectId) = OK
  /\ CanCommit
  /\ \E ts \in BlockTimes :
       /\ now' = ts
       /\ subjects' = [subjects EXCEPT ![subjectId] =
                         ReactivatedSubject(@, ts)]
       /\ Emit([type |-> "SubjectReactivated", subjectId |-> subjectId,
                reactivatedBy |-> caller, timestamp |-> ts])
  /\ last' = SubjectReceipt("reactivateSubject", caller, subjectId, 0)
  /\ UNCHANGED <<codec, owner, subjectCount, nodeCount, authRecordCount, nodes,
                 authRecords, subjectExists, nodeEnrollments, allSubjectIds,
                 allNodeAddresses>>

(***************************************************************************)
(* Views.  A view returns [status, ret]: the revert reason or OK, and the  *)
(* returned value when it did not revert.                                  *)
(***************************************************************************)
NoRet == <<>>

View(status, ret) ==
  [status |-> status, ret |-> IF status = OK THEN ret ELSE NoRet]

\* the modifiers shared by getSubject and verifyCommitment, in source order
readSubjectRevertIn(ss, caller, subjectId) ==
  IF ~onlyAuthorizedNode(caller) THEN ErrNotAuthorized
  ELSE IF ~subjectMustExist(subjectId) THEN ErrNotFound
  ELSE IF ~subjectMustBeActiveIn(ss, subjectId) THEN ErrNotActive
  ELSE OK

readSubjectRevert(caller, subjectId) ==
  readSubjectRevertIn(subjects, caller, subjectId)

getSubject(caller, subjectId) ==
  LET s == subjects[subjectId]
  IN View(readSubjectRevert(caller, subjectId),
          <<s.subjectId, s.commitmentHash, s.delta, s.templateCID,
            s.biometricType, s.enrolledAt>>)

checkSubjectStatus(subjectId) ==
  <<subjectExists[subjectId], subjects[subjectId].isActive>>

\* variant: any non-zero hash is accepted
commitmentMatches_NonZero(s, providedHash) == providedHash # 0

\* the comparison in the body of verifyCommitment
commitmentMatches(s, providedHash) == s.commitmentHash = providedHash

verifyCommitmentIn(ss, caller, subjectId, providedHash) ==
  View(readSubjectRevertIn(ss, caller, subjectId),
       commitmentMatches(ss[subjectId], providedHash))

verifyCommitment(caller, subjectId, providedHash) ==
  verifyCommitmentIn(subjects, caller, subjectId, providedHash)

logAuthenticationRevert(caller) ==
  IF ~onlyAuthorizedNode(caller) THEN ErrNotAuthorized ELSE OK

\* variant: an id outside 1.._authRecordCount is rejected
getAuthRecord_RangeChecked(caller, recordId) ==
  View(IF logAuthenticationRevert(caller) # OK
       THEN logAuthenticationRevert(caller)
       ELSE IF recordId = 0 \/ recordId > authRecordCount THEN ErrNotFound
       ELSE OK,
       authRecords[recordId])

getAuthRecord(caller, recordId) ==
  View(logAuthenticationRevert(caller), authRecords[recordId])

totalSubjects == subjectCount
totalNodes == nodeCount
totalAuthRecords == authRecordCount
isAuthorizedNode(a) == nodes[a].isAuthorized
isEnrollmentCenter(a) == nodes[a].isEnrollmentCenter /\ nodes[a].isAuthorized

(***************************************************************************)
(* Authentication logging.                                                 *)
(***************************************************************************)
\* variant: a success is recorded only for an existing active subject
NewAuthRecord_Checked(subjectId, caller, success, reason, ts) ==
  [subjectId |-> subjectId, verifier |-> caller,
   success |-> success /\ subjectExists[subjectId]
                 /\ subjects[subjectId].isActive,
   reason |-> reason, timestamp |-> ts]

NewAuthRecord(subjectId, caller, success, reason, ts) ==
  [subjectId |-> subjectId, verifier |-> caller, success |-> success,
   reason |-> reason, timestamp |-> ts]

\* variant: the record is written before the counter is incremented
authRecordSlot_ZeroBased(count) == count

\* variant: the newest record is written over the previous one
authRecordSlot_Overwrite(count) == IF count = 0 THEN 1 ELSE count

\* the slot written after _authRecordCount++; count is the value before it
authRecordSlot(count) == count + 1

LogAuthentication(caller, subjectId, success, reason) ==
  /\ logAuthenticationRevert(caller) = OK
  /\ CanCommit
  /\ authRecordCount' = authRecordCount + 1
  /\ \E ts \in BlockTimes :
       /\ now' = ts
       /\ authRecords' = [authRecords EXCEPT
              ![authRecordSlot(authRecordCount)] =
                 NewAuthRecord(subjectId, caller, success, reason, ts)]
       /\ Emit([type |-> "AuthenticationLogged", subjectId |-> subjectId,
                verifier |-> caller, success |-> success, timestamp |-> ts])
  /\ last' = [SubjectReceipt("logAuthentication", caller, subjectId, 0)
                EXCEPT !.flag = success]
  /\ UNCHANGED <<codec, owner, subjectCount, nodeCount, subjects, nodes,
                 subjectExists, nodeEnrollments, allSubjectIds,
                 allNodeAddresses>>

(***************************************************************************)
(* Node management.                                                        *)
(***************************************************************************)
\* variant: without require(_nodes[nodeAddress].nodeAddress == address(0))
registerNodeRevert_NoExistsCheck(caller, nodeAddress) ==
  IF ~onlyEnrollmentCenter(caller) THEN ErrNotEC
  ELSE IF nodeAddress = NullAddress THEN ErrInvalidAddress
  ELSE OK

registerNodeRevert(caller, nodeAddress) ==
  IF ~onlyEnrollmentCenter(caller) THEN ErrNotEC
  ELSE IF nodeAddress = NullAddress THEN ErrInvalidAddress
  ELSE IF nodes[nodeAddress].nodeAddress # NullAddress THEN ErrNodeExists
  ELSE OK

NewNode(nodeId, name, nodeAddress, isEC, ts) ==
  [nodeId |-> nodeId, name |-> name, nodeAddress |-> nodeAddress,
   isEnrollmentCenter |-> isEC, isAuthorized |-> TRUE, registeredAt |-> ts,
   enrollmentCount |-> 0]

RegisterNode(caller, nodeAddress, name, isEC) ==
  /\ registerNodeRevert(caller, nodeAddress) = OK
  /\ CanCommit
  /\ nodeCount' = nodeCount + 1
  /\ \E ts \in BlockTimes :
       /\ now' = ts
       /\ nodes' = [nodes EXCEPT ![nodeAddress] =
              NewNode(nodeCount + 1, name, nodeAddress, isEC, ts)]
       /\ Emit([type |-> "NodeRegistered", nodeId |-> nodeCount + 1,
                nodeAddress |-> nodeAddress, name |-> name,
                isEnrollmentCenter |-> isEC, timestamp |-> ts])
  /\ allNodeAddresses' = Append(allNodeAddresses, nodeAddress)
  /\ last' = NodeReceipt("registerNode", caller, nodeAddress, isEC)
  /\ UNCHANGED <<codec, owner, subjectCount, authRecordCount, subjects, authRecords,
                 subjectExists, nodeEnrollments, allSubjectIds>>

\* variant: without require(nodeAddress != _owner)
setNodeAuthorizationRevert_NoOwnerGuard(caller, nodeAddress) ==
  IF ~onlyEnrollmentCenter(caller) THEN ErrNotEC
  ELSE IF nodes[nodeAddress].nodeAddress = NullAddress THEN ErrNodeNotFound
  ELSE OK

setNodeAuthorizationRevert(caller, nodeAddress) ==
  IF ~onlyEnrollmentCenter(caller) THEN ErrNotEC
  ELSE IF nodes[nodeAddress].nodeAddress = NullAddress THEN ErrNodeNotFound
  ELSE IF nodeAddress = owner THEN ErrModifyOwner
  ELSE OK

\* variant: revoking the authorization also clears the enrollment-center flag
SetNodeAuthorization_RevokesRole(caller, nodeAddress, authorized) ==
  /\ setNodeAuthorizationRevert(caller, nodeAddress) = OK
  /\ CanCommit
  /\ nodes' = [nodes EXCEPT
       ![nodeAddress].isAuthorized = authorized,
       ![nodeAddress].isEnrollmentCenter = @ /\ authorized]
  /\ \E ts \in BlockTimes :
       /\ now' = ts
       /\ Emit([type |-> "NodeStatusChanged", nodeAddress |-> nodeAddress,
                isAuthorized |-> authorized, timestamp |-> ts])
  /\ last' = NodeReceipt("setNodeAuthorization", caller, nodeAddress,
                         authorized)
  /\ UNCHANGED <<codec, owner, subjectCount, nodeCount, authRecordCount,
                 subjects, authRecords, subjectExists, nodeEnrollments,
                 allSubjectIds, allNodeAddresses>>

SetNodeAuthorization(caller, nodeAddress, authorized) ==
  /\ setNodeAuthorizationRevert(caller, nodeAddress) = OK
  /\ CanCommit
  /\ nodes' = [nodes EXCEPT ![nodeAddress].isAuthorized = authorized]
  /\ \E ts \in BlockTimes :
       /\ now' = ts
       /\ Emit([type |-> "NodeStatusChanged", nodeAddress |-> nodeAddress,
                isAuthorized |-> authorized, timestamp |-> ts])
  /\ last' = NodeReceipt("setNodeAuthorization", caller, nodeAddress,
                         authorized)
  /\ UNCHANGED <<codec, owner, subjectCount, nodeCount, authRecordCount, subjects,
                 authRecords, subjectExists, nodeEnrollments, allSubjectIds,
                 allNodeAddresses>>

(***************************************************************************)
(* Admin functions.                                                        *)
(***************************************************************************)
\* variant: the modifier is onlyEnrollmentCenter instead of onlyOwner
transferOwnershipRevert_AnyEnrollmentCenter(caller, newOwner) ==
  IF ~onlyEnrollmentCenter(caller) THEN ErrNotOwner
  ELSE IF newOwner = NullAddress THEN ErrInvalidNewOwner
  ELSE OK

transferOwnershipRevert(caller, newOwner) ==
  IF ~onlyOwner(caller) THEN ErrNotOwner
  ELSE IF newOwner = NullAddress THEN ErrInvalidNewOwner
  ELSE OK

\* variant: the previous owner's record is not deleted
TransferNode_KeepOld(ns, previousOwner, newOwner) ==
  LET copied == [ns EXCEPT ![newOwner] = ns[previousOwner]]
  IN [copied EXCEPT ![newOwner].nodeAddress = newOwner]

\* the three storage writes under "Transfer node privileges", in source order
TransferNode(ns, previousOwner, newOwner) ==
  LET copied == [ns EXCEPT ![newOwner] = ns[previousOwner]]
      readdressed == [copied EXCEPT ![newOwner].nodeAddress = newOwner]
  IN [readdressed EXCEPT ![previousOwner] = ZeroNode]

\* variant: the transfer counts the new owner as one more node
TransferOwnership_CountsNode(caller, newOwner) ==
  /\ transferOwnershipRevert(caller, newOwner) = OK
  /\ CanCommit
  /\ owner' = newOwner
  /\ nodes' = TransferNode(nodes, owner, newOwner)
  /\ nodeCount' = nodeCount + 1
  /\ allNodeAddresses' = Append(allNodeAddresses, newOwner)
  /\ Emit([type |-> "OwnershipTransferred", previousOwner |-> owner,
           newOwner |-> newOwner])
  /\ \E ts \in BlockTimes : now' = ts
  /\ last' = NodeReceipt("transferOwnership", caller, newOwner, FALSE)
  /\ UNCHANGED <<codec, subjectCount, authRecordCount, subjects,
                 authRecords, subjectExists, nodeEnrollments, allSubjectIds>>

\* variant: without _allNodeAddresses.push(newOwner)
TransferOwnership_NoPush(caller, newOwner) ==
  /\ transferOwnershipRevert(caller, newOwner) = OK
  /\ CanCommit
  /\ owner' = newOwner
  /\ nodes' = TransferNode(nodes, owner, newOwner)
  /\ Emit([type |-> "OwnershipTransferred", previousOwner |-> owner,
           newOwner |-> newOwner])
  /\ \E ts \in BlockTimes : now' = ts
  /\ last' = NodeReceipt("transferOwnership", caller, newOwner, FALSE)
  /\ UNCHANGED <<codec, subjectCount, nodeCount, authRecordCount, subjects,
                 authRecords, subjectExists, nodeEnrollments, allSubjectIds,
                 allNodeAddresses>>

TransferOwnership(caller, newOwner) ==
  /\ transferOwnershipRevert(caller, newOwner) = OK
  /\ CanCommit
  /\ owner' = newOwner
  /\ nodes' = TransferNode(nodes, owner, newOwner)
  /\ allNodeAddresses' = Append(allNodeAddresses, newOwner)
  /\ Emit([type |-> "OwnershipTransferred", previousOwner |-> owner,
           newOwner |-> newOwner])
  /\ \E ts \in BlockTimes : now' = ts
  /\ last' = NodeReceipt("transferOwnership", caller, newOwner, FALSE)
  /\ UNCHANGED <<codec, subjectCount, nodeCount, authRecordCount, subjects,
                 authRecords, subjectExists, nodeEnrollments, allSubjectIds>>

(***************************************************************************)
(* The registry: any caller may submit any call at any time.               *)
(***************************************************************************)
Next ==
  \E caller \in Callers :
    \/ \E id \in SubjectIds, h \in Hashes, p \in Payloads :
         \/ EnrollSubject(caller, id, h, p)
         \/ UpdateSubject(caller, id, h, p)
    \/ \E id \in SubjectIds :
         \/ DeactivateSubject(caller, id)
         \/ ReactivateSubject(caller, id)
    \/ \E id \in SubjectIds, o \in Outcomes :
         LogAuthentication(caller, id, o.success, o.reason)
    \/ \E a \in Addresses, n \in Names, isEC \in BOOLEAN :
         RegisterNode(caller, a, n, isEC)
    \/ \E a \in Addresses, b \in BOOLEAN : SetNodeAuthorization(caller, a, b)
    \/ \E a \in Addresses : TransferOwnership(caller, a)

Spec == Init /\ [][Next]_vars

(***************************************************************************)
(* The Commitment Codec on its own: an enrollment computes the pair        *)
(* (commitmentHash, delta), an authentication recovers a candidate key     *)
(* from a fresh feature vector and verifies it.  The registry is not       *)
(* involved.                                                               *)
(***************************************************************************)
Commit(secretKey, featureVector) ==
  /\ codec.stage = "idle"
  /\ codec' = [codec EXCEPT
       !.stage = "committed",
       !.secretKey = secretKey,
       !.featureVector = featureVector,
       !.commitmentHash = commit(secretKey, featureVector).commitmentHash,
       !.delta = commit(secretKey, featureVector).delta]
  /\ UNCHANGED <<storage, events, now, last>>

Recover(freshFeatureVector) ==
  /\ codec.stage = "committed"
  /\ codec' = [codec EXCEPT
       !.stage = "recovered",
       !.freshFeatureVector = freshFeatureVector,
       !.candidateKey = recover(codec.delta, freshFeatureVector),
       !.accepted = verify(codec.commitmentHash,
                           recover(codec.delta, freshFeatureVector))]
  /\ UNCHANGED <<storage, events, now, last>>

CodecNext ==
  \/ \E secretKey \in Keys, featureVector \in Vectors :
       Commit(secretKey, featureVector)
  \/ \E freshFeatureVector \in Vectors : Recover(freshFeatureVector)

CodecSpec == Init /\ [][CodecNext]_vars

(***************************************************************************)
(* Properties.  A step that is not a stuttering step commits exactly one   *)
(* transaction, and last' names it; arguments are read from last', the     *)
(* state the call started in from the unprimed variables.                  *)
(***************************************************************************)
canEnroll(c) == nodes[c].isAuthorized /\ nodes[c].isEnrollmentCenter
authorized(c) == nodes[c].isAuthorized
registered(c) == nodes[c].nodeAddress # NullAddress

\* C1: for every caller with canEnroll, every subjectId # 0 that does not
\* exist yet and every commitmentHash # 0, enrollSubject does not revert;
\* after every committed enrollSubject (whatever delta, templateCID and
\* biometricType were) checkSubjectStatus(id) returns (true, true) and
\* totalSubjects has grown by exactly 1.
C1_EnrollAccepted ==
  \A c \in Callers, id \in SubjectIds, h \in Hashes :
    (canEnroll(c) /\ id # 0 /\ ~subjectExists[id] /\ h # 0)
      => enrollSubjectRevert(c, id, h) = OK

C1_EnrollStep ==
  last'.op = "enrollSubject" =>
    /\ canEnroll(last'.caller)
    /\ last'.subjectId # 0 /\ last'.hash # 0
    /\ ~subjectExists[last'.subjectId]
    /\ \A id \in SubjectIds :
         id = last'.subjectId => checkSubjectStatus(id)' = <<TRUE, TRUE>>
    /\ totalSubjects' = totalSubjects + 1

C1_EnrollThenStatus == [](C1_EnrollAccepted) /\ [][C1_EnrollStep]_vars

\* C1 witness: a node other than the deployer has enrolled a subject, which
\* checkSubjectStatus reports as existing and active.
C1_Witness ==
  /\ last.op = "enrollSubject"
  /\ last.caller # Deployer
  /\ checkSubjectStatus(last.subjectId) = <<TRUE, TRUE>>
  /\ totalSubjects = 1

\* C2 as stated: once a subject id exists, enrollSubject with that id by a
\* caller with canEnroll reverts with "subject already exists" whatever the
\* other arguments are.
C2_AlwaysDuplicate ==
  \A c \in Callers, id \in SubjectIds, h \in Hashes :
    (canEnroll(c) /\ subjectExists[id])
      => enrollSubjectRevert(c, id, h) = ErrDuplicate

\* C2 amended: once a subject id exists, enrollSubject with that id by a
\* caller with canEnroll always reverts: with "subject already exists" when
\* commitmentHash # 0 and with "invalid commitment hash" when it is 0; no
\* committed enrollSubject names an existing id or changes the record of a
\* subject that already existed, and a subject that exists keeps existing.
C2_Rejected ==
  \A c \in Callers, id \in SubjectIds, h \in Hashes :
    (canEnroll(c) /\ subjectExists[id])
      => enrollSubjectRevert(c, id, h) =
           IF h = 0 THEN ErrInvalidHash ELSE ErrDuplicate

C2_EnrollStep ==
  last'.op = "enrollSubject" =>
    \A id \in SubjectIds :
      subjectExists[id] =>
        /\ id # last'.subjectId
        /\ subjects'[id] = subjects[id]
        /\ subjectExists'[id]

C2_DuplicateRejected == [](C2_Rejected) /\ [][C2_EnrollStep]_vars

\* C2 witness: a subject exists and an enrollment center other than the one
\* that enrolled it is rejected as a duplicate when it enrolls the same id
\* with a different, non-zero hash.
C2_Witness ==
  \E c \in Callers, id \in SubjectIds, h \in Hashes :
    /\ canEnroll(c) /\ subjectExists[id]
    /\ c # subjects[id].enrolledBy
    /\ h # 0 /\ h # subjects[id].commitmentHash
    /\ enrollSubjectRevert(c, id, h) = ErrDuplicate

\* C3: for every existing active subject and every authorized caller,
\* verifyCommitment(id, h) does not revert and returns true iff h is the
\* stored commitmentHash; the stored commitmentHash of an id is the hash given
\* to the latest committed enrollSubject/updateSubject for that id.
C3_Verify ==
  \A c \in Callers, id \in SubjectIds, h \in Hashes :
    (authorized(c) /\ subjectExists[id] /\ subjects[id].isActive)
      => verifyCommitment(c, id, h) =
           [status |-> OK, ret |-> (h = subjects[id].commitmentHash)]

C3_HashStep ==
  \A id \in SubjectIds :
    subjects'[id].commitmentHash =
      IF last'.op \in {"enrollSubject", "updateSubject"}
           /\ last'.subjectId = id
      THEN last'.hash
      ELSE subjects[id].commitmentHash

C3_VerifyIffStoredHash == [](C3_Verify) /\ [][C3_HashStep]_vars

\* C3 witness: after an updateSubject an authentication-only node gets true
\* for the new hash and false, not a revert, for the replaced one.
C3_Witness ==
  /\ last.op = "updateSubject"
  /\ last.pre.commitmentHash # last.hash
  /\ \E c \in Callers :
       /\ authorized(c) /\ ~nodes[c].isEnrollmentCenter
       /\ verifyCommitment(c, last.subjectId, last.hash) =
            [status |-> OK, ret |-> TRUE]
       /\ verifyCommitment(c, last.subjectId, last.pre.commitmentHash) =
            [status |-> OK, ret |-> FALSE]

\* C4: verifyCommitment, getSubject, logAuthentication and getAuthRecord
\* revert with "not authorized node" whenever the caller's node has
\* isAuthorized = false (no Node record, or revoked), for every subject id;
\* the audit log changes only by a logAuthentication of a caller that was
\* authorized.
C4_Unauthorized ==
  \A c \in Callers :
    ~nodes[c].isAuthorized =>
      /\ logAuthenticationRevert(c) = ErrNotAuthorized
      /\ \A id \in SubjectIds :
           /\ getSubject(c, id).status = ErrNotAuthorized
           /\ \A h \in Hashes :
                verifyCommitment(c, id, h).status = ErrNotAuthorized
      /\ \A r \in RecordIds : getAuthRecord(c, r).status = ErrNotAuthorized

C4_LogStep ==
  (authRecords' # authRecords \/ authRecordCount' # authRecordCount)
    => (last'.op = "logAuthentication" /\ nodes[last'.caller].isAuthorized)

C4_UnauthorizedRejected == [](C4_Unauthorized) /\ [][C4_LogStep]_vars

\* C4 witness: a subject exists and is active while one node is revoked
\* (registered, isAuthorized = false) and another address has no Node record.
C4_Witness ==
  /\ \E id \in SubjectIds : subjectExists[id] /\ subjects[id].isActive
  /\ \E c \in Callers : registered(c) /\ ~nodes[c].isAuthorized
  /\ \E c \in Callers : ~registered(c)

\* C5: enrollSubject, updateSubject, deactivateSubject, reactivateSubject,
\* registerNode and setNodeAuthorization revert with "not an enrollment
\* center" when the caller does not satisfy canEnroll; the subject count, the
\* node count and the Subject and Node records change only by a call of a
\* caller that had canEnroll, or by transferOwnership.
C5_NotEnrollmentCenter ==
  \A c \in Callers :
    ~(nodes[c].isAuthorized /\ nodes[c].isEnrollmentCenter) =>
      /\ \A id \in SubjectIds :
           /\ deactivateSubjectRevert(c, id) = ErrNotEC
           /\ reactivateSubjectRevert(c, id) = ErrNotEC
           /\ \A h \in Hashes :
                /\ enrollSubjectRevert(c, id, h) = ErrNotEC
                /\ updateSubjectRevert(c, id, h) = ErrNotEC
      /\ \A a \in Addresses :
           /\ registerNodeRevert(c, a) = ErrNotEC
           /\ setNodeAuthorizationRevert(c, a) = ErrNotEC

C5_MutationStep ==
  (\/ subjectCount' # subjectCount
   \/ nodeCount' # nodeCount
   \/ subjects' # subjects
   \/ subjectExists' # subjectExists
   \/ nodes' # nodes)
    => \/ last'.op = "transferOwnership"
       \/ /\ last'.op \in {"enrollSubject", "updateSubject",
                           "deactivateSubject", "reactivateSubject",
                           "registerNode", "setNodeAuthorization"}
          /\ nodes[last'.caller].isAuthorized
          /\ nodes[last'.caller].isEnrollmentCenter

C5_NonEnrollerRejected == [](C5_NotEnrollmentCenter) /\ [][C5_MutationStep]_vars

\* C5 witness: a subject exists while one node is an authorized
\* authentication-only node and another address has no Node record.
C5_Witness ==
  /\ \E id \in SubjectIds : subjectExists[id]
  /\ \E c \in Callers : nodes[c].isAuthorized /\ ~nodes[c].isEnrollmentCenter
  /\ \E c \in Callers : ~registered(c)

\* the commitment material of a Subject record
material(s) == <<s.commitmentHash, s.delta, s.templateCID>>

\* C6: while an existing subject is inactive, verifyCommitment and getSubject
\* by an authorized caller and updateSubject by a caller with canEnroll
\* revert with "subject not active", checkSubjectStatus returns (true, false),
\* and no step changes its commitment material.
C6_Inactive ==
  \A id \in SubjectIds :
    (subjectExists[id] /\ ~subjects[id].isActive) =>
      /\ checkSubjectStatus(id) = <<TRUE, FALSE>>
      /\ \A c \in Callers :
           /\ authorized(c) =>
                /\ getSubject(c, id) = [status |-> ErrNotActive, ret |-> NoRet]
                /\ \A h \in Hashes :
                     verifyCommitment(c, id, h) =
                       [status |-> ErrNotActive, ret |-> NoRet]
           /\ canEnroll(c) =>
                \A h \in Hashes : updateSubjectRevert(c, id, h) = ErrNotActive

C6_InactiveStep ==
  \A id \in SubjectIds :
    (subjectExists[id] /\ ~subjects[id].isActive)
      => material(subjects'[id]) = material(subjects[id])

C6_InactiveIsSealed == [](C6_Inactive) /\ [][C6_InactiveStep]_vars

\* C6 witness: a subject has just been deactivated while an authorized
\* authentication-only node is registered.
C6_Witness ==
  /\ last.op = "deactivateSubject"
  /\ last.pre.isActive
  /\ checkSubjectStatus(last.subjectId) = <<TRUE, FALSE>>
  /\ \E c \in Callers : authorized(c) /\ ~nodes[c].isEnrollmentCenter

\* C7: when a committed deactivateSubject(id) is followed by a committed
\* reactivateSubject(id), the subject ends active with commitmentHash, delta,
\* templateCID, biometricType, enrolledBy and enrolledAt as before the pair,
\* and every verifyCommitment call that returned an answer before the pair
\* returns the same answer after it.
C7_RoundTripStep ==
  (/\ last.op = "deactivateSubject"
   /\ last'.op = "reactivateSubject"
   /\ last'.subjectId = last.subjectId)
    => \A id \in SubjectIds :
         id = last.subjectId =>
           /\ subjects'[id].isActive
           /\ subjects'[id].subjectId = last.pre.subjectId
           /\ subjects'[id].commitmentHash = last.pre.commitmentHash
           /\ subjects'[id].delta = last.pre.delta
           /\ subjects'[id].templateCID = last.pre.templateCID
           /\ subjects'[id].biometricType = last.pre.biometricType
           /\ subjects'[id].enrolledBy = last.pre.enrolledBy
           /\ subjects'[id].enrolledAt = last.pre.enrolledAt
           /\ \A c \in Callers, h \in Hashes :
                LET before == verifyCommitmentIn(
                                [subjects EXCEPT ![id] = last.pre], c, id, h)
                IN before.status = OK
                     => verifyCommitment(c, id, h)' = before

C7_DeactivateReactivate == [][C7_RoundTripStep]_vars

\* C7 witness: a subject that was active has been deactivated and then
\* reactivated.
C7_Witness ==
  /\ last.op = "reactivateSubject"
  /\ ~last.pre.isActive
  /\ Len(events) >= 3
  /\ events[Len(events) - 1].type = "SubjectDeactivated"
  /\ events[Len(events) - 1].subjectId = last.subjectId
  /\ events[Len(events) - 2].type = "SubjectEnrolled"
  /\ events[Len(events) - 2].subjectId = last.subjectId

\* the AuthenticationLogged events, in the order they were emitted
LoggedEvents == SelectSeq(events, LAMBDA e : e.type = "AuthenticationLogged")

\* C8: the k-th committed logAuthentication is stored under id k: the ids
\* that hold a record are exactly 1..totalAuthRecords, and record k carries
\* the subject, verifier, outcome and timestamp of the k-th logged call.
C8_SequentialIds ==
  /\ totalAuthRecords = Len(LoggedEvents)
  /\ \A i \in RecordIds :
       (authRecords[i] # ZeroAuthRecord) <=> (1 <= i /\ i <= totalAuthRecords)
  /\ \A k \in 1..Len(LoggedEvents) :
       /\ authRecords[k].subjectId = LoggedEvents[k].subjectId
       /\ authRecords[k].verifier = LoggedEvents[k].verifier
       /\ authRecords[k].success = LoggedEvents[k].success
       /\ authRecords[k].timestamp = LoggedEvents[k].timestamp

\* C8 witness: two different authorized callers have logged, with another
\* operation in between or before.
C8_Witness ==
  /\ totalAuthRecords = 2
  /\ authRecords[1].verifier # authRecords[2].verifier

\* C9: no step changes or removes an AuthRecord already appended, and
\* totalAuthRecords never decreases.
C9_Step ==
  /\ authRecordCount' >= authRecordCount
  /\ \A k \in 1..authRecordCount : authRecords'[k] = authRecords[k]

C9_AuditImmutable == [][C9_Step]_vars

\* C9 witness: a record is stored and its verifier has since lost its
\* authorization (revoked, or ownership transferred away).
C9_Witness ==
  /\ totalAuthRecords >= 1
  /\ last.op \in {"setNodeAuthorization", "transferOwnership"}
  /\ ~nodes[authRecords[1].verifier].isAuthorized

\* C10 as stated: after every committed transferOwnership(newAddr), newAddr
\* is the owner, isEnrollmentCenter(newAddr) is true and enrollSubject by
\* newAddr with a fresh non-zero id and a non-zero hash does not revert.
C10_Step ==
  last'.op = "transferOwnership" =>
    \A a \in Callers :
      a = last'.addr =>
        /\ owner' = a
        /\ isEnrollmentCenter(a)'
        /\ \A id \in SubjectIds, h \in Hashes :
             (id # 0 /\ h # 0 /\ ~subjectExists[id])
               => (enrollSubjectRevert(a, id, h) = OK)'

C10_NewOwnerCanEnroll == [][C10_Step]_vars

\* every call gated by onlyEnrollmentCenter or onlyAuthorizedNode reverts for
\* caller c with the modifier's message
AllGatedCallsRevert(c) ==
  /\ logAuthenticationRevert(c) = ErrNotAuthorized
  /\ \A r \in RecordIds : getAuthRecord(c, r).status = ErrNotAuthorized
  /\ \A id \in SubjectIds :
       /\ getSubject(c, id).status = ErrNotAuthorized
       /\ deactivateSubjectRevert(c, id) = ErrNotEC
       /\ reactivateSubjectRevert(c, id) = ErrNotEC
       /\ \A h \in Hashes :
            /\ verifyCommitment(c, id, h).status = ErrNotAuthorized
            /\ enrollSubjectRevert(c, id, h) = ErrNotEC
            /\ updateSubjectRevert(c, id, h) = ErrNotEC
  /\ \A a \in Addresses :
       /\ registerNodeRevert(c, a) = ErrNotEC
       /\ setNodeAuthorizationRevert(c, a) = ErrNotEC

\* event i is a transferOwnership away from a
TransferredFrom(a, i) ==
  events[i].type = "OwnershipTransferred" /\ events[i].previousOwner = a

\* a was registered by a registerNode after event i
RegisteredAfter(a, i) ==
  \E j \in (i + 1)..Len(events) :
    events[j].type = "NodeRegistered" /\ events[j].nodeAddress = a

\* ownership was transferred to a after event i
OwnerAgainAfter(a, i) ==
  \E j \in (i + 1)..Len(events) :
    events[j].type = "OwnershipTransferred" /\ events[j].newOwner = a

\* C11 as stated: after a committed transferOwnership, every gated call of the
\* previous owner's address reverts as unauthorized until that address is
\* registered again.
C11_UntilRegistered ==
  \A a \in Callers, i \in 1..Len(events) :
    (TransferredFrom(a, i) /\ ~RegisteredAfter(a, i))
      => AllGatedCallsRevert(a)

\* C11 amended: after a committed transferOwnership, every gated call of the
\* previous owner's address reverts as unauthorized until that address is
\* registered again or ownership is transferred to it again.
C11_PreviousOwnerLocked ==
  \A a \in Callers, i \in 1..Len(events) :
    (TransferredFrom(a, i) /\ ~RegisteredAfter(a, i)
       /\ ~OwnerAgainAfter(a, i))
      => AllGatedCallsRevert(a)

\* C11 witness: the deployer enrolled a subject and then transferred the
\* ownership to another address; its calls are now rejected.
C11_Witness ==
  /\ last.op = "transferOwnership"
  /\ last.caller # last.addr
  /\ \E id \in SubjectIds :
       subjectExists[id] /\ subjects[id].enrolledBy = last.caller
  /\ AllGatedCallsRevert(last.caller)

\* the fields of a Subject record fixed at enrollment
identity(s) == <<s.subjectId, s.enrolledBy, s.enrolledAt, s.biometricType>>

\* C12: a subject is never removed or re-created: no step makes an existing
\* id non-existent, and no step changes the subjectId, enrolledBy, enrolledAt
\* or biometricType of an existing subject.
C12_Step ==
  \A id \in SubjectIds :
    subjectExists[id] =>
      /\ subjectExists'[id]
      /\ identity(subjects'[id]) = identity(subjects[id])
      /\ subjects'[id].subjectId = id

C12_SubjectPermanent == [][C12_Step]_vars

\* C12 witness: a subject was enrolled, then updated with a different
\* payload, and then the ownership was transferred away from its enroller.
C12_Witness ==
  /\ last.op = "transferOwnership"
  /\ \E id \in SubjectIds :
       /\ subjectExists[id]
       /\ subjects[id].updatedAt # subjects[id].enrolledAt
       /\ ~nodes[subjects[id].enrolledBy].isAuthorized
       /\ \E p \in Payloads :
            /\ p.delta = subjects[id].delta
            /\ p.biometricType # subjects[id].biometricType

\* the SubjectEnrolled events, in the order they were emitted
EnrolledEvents == SelectSeq(events, LAMBDA e : e.type = "SubjectEnrolled")

\* C13: totalSubjects equals the number of subject ids that exist and the
\* length of the subject-id enumeration, which holds each existing id exactly
\* once; it equals the number of committed enrollSubject calls, so it grows by
\* 1 with each of them and is changed by nothing else.
C13_SubjectCount ==
  LET enrolled == EnrolledEvents
  IN /\ totalSubjects = Cardinality({id \in SubjectIds : subjectExists[id]})
     /\ totalSubjects = Len(allSubjectIds)
     /\ \A i, j \in 1..Len(allSubjectIds) :
          allSubjectIds[i] = allSubjectIds[j] => i = j
     /\ \A id \in SubjectIds :
          subjectExists[id] <=>
            (\E i \in 1..Len(allSubjectIds) : allSubjectIds[i] = id)
     /\ totalSubjects = Len(enrolled)
     /\ \A i \in 1..Len(allSubjectIds) :
          allSubjectIds[i] = enrolled[i].subjectId

\* C13 witness: two subjects were enrolled and one of them was deactivated.
C13_Witness ==
  /\ last.op = "deactivateSubject"
  /\ totalSubjects = 2
  /\ \E id \in SubjectIds : subjectExists[id] /\ ~subjects[id].isActive

\* the addresses that currently hold a Node record
NodeHolders == {a \in Addresses : nodes[a].nodeAddress # NullAddress}

\* C14 as stated: in every reachable state totalNodes equals the number of
\* addresses that currently hold a Node record.
C14_NodeCount == totalNodes = Cardinality(NodeHolders)

\* C15: in the state the constructor leaves, the deployer is the owner and
\* the only Node, authorized and an enrollment center with enrollmentCount 0;
\* totalNodes = 1, totalSubjects = 0, totalAuthRecords = 0 and the node
\* enumeration is exactly <<deployer>>.
C15_AfterConstruction ==
  last.op = "constructor" =>
    /\ owner = last.caller
    /\ nodes[owner].nodeAddress = owner
    /\ nodes[owner].isAuthorized
    /\ nodes[owner].isEnrollmentCenter
    /\ isEnrollmentCenter(owner)
    /\ nodes[owner].enrollmentCount = 0
    /\ \A a \in Addresses : a # owner => nodes[a] = ZeroNode
    /\ totalNodes = 1
    /\ totalSubjects = 0
    /\ totalAuthRecords = 0
    /\ allNodeAddresses = <<owner>>

\* C15 witness: the state right after construction, before any transaction.
C15_Witness ==
  /\ last.op = "constructor"
  /\ Len(events) = 1
  /\ owner = Deployer
  /\ allSubjectIds = <<>>

\* C16, rejections: for a caller with canEnroll, registerNode reverts with
\* "Invalid node address" for the null address and with "Node already
\* registered" for an address that holds a Node record, and does not revert
\* for any other address.
C16_Rejected ==
  \A c \in Callers : \A a \in Addresses :
    canEnroll(c) =>
      /\ a = NullAddress => registerNodeRevert(c, a) = ErrInvalidAddress
      /\ (a # NullAddress /\ registered(a)) =>
           registerNodeRevert(c, a) = ErrNodeExists
      /\ (a # NullAddress /\ ~registered(a)) => registerNodeRevert(c, a) = OK

\* C16, effect: a committed registerNode acts on a non-null address that held
\* no record (so no existing record is overwritten), creates a record with
\* isAuthorized = TRUE, the given flag and enrollmentCount 0, increments
\* totalNodes by 1, leaves every other Node record unchanged, and afterwards
\* isEnrollmentCenter(addr) equals the given flag.
C16_Step ==
  (events' # events /\ last'.op = "registerNode") =>
    \A a \in Addresses :
      a = last'.addr =>
        /\ canEnroll(last'.caller)
        /\ a # NullAddress
        /\ ~registered(a)
        /\ nodes'[a].nodeAddress = a
        /\ nodes'[a].isAuthorized
        /\ nodes'[a].isEnrollmentCenter = last'.flag
        /\ nodes'[a].enrollmentCount = 0
        /\ totalNodes' = totalNodes + 1
        /\ \A b \in Addresses : b # a => nodes'[b] = nodes[b]
        /\ isEnrollmentCenter(a)' = last'.flag

\* C16: registerNode by a caller with canEnroll fails for the null address
\* and for an address that already holds a Node record; otherwise it creates
\* the record as described and changes no other record.
C16_RegisterNode == [](C16_Rejected) /\ [][C16_Step]_vars

\* C16 witness: a node was just registered without the enrollment-center
\* flag next to an earlier node registered with it, so that both values of
\* the flag and the "already registered" rejection occur.
C16_Witness ==
  /\ last.op = "registerNode"
  /\ ~last.flag
  /\ ~isEnrollmentCenter(last.addr)
  /\ isAuthorizedNode(last.addr)
  /\ \E b \in Addresses :
       /\ b # owner
       /\ b # last.addr
       /\ isEnrollmentCenter(b)
       /\ registerNodeRevert(b, last.addr) = ErrNodeExists
       /\ registerNodeRevert(b, NullAddress) = ErrInvalidAddress

\* C17, rejections: setNodeAuthorization reverts for every caller when the
\* address holds no Node record or is the current owner; a caller with
\* canEnroll gets "Node not found" for an address without a record and
\* "Cannot modify owner" for the owner's record.
C17_Rejected ==
  \A c \in Callers : \A a \in Addresses :
    /\ (~registered(a) \/ a = owner) => setNodeAuthorizationRevert(c, a) # OK
    /\ (canEnroll(c) /\ ~registered(a)) =>
         setNodeAuthorizationRevert(c, a) = ErrNodeNotFound
    /\ (canEnroll(c) /\ registered(a) /\ a = owner) =>
         setNodeAuthorizationRevert(c, a) = ErrModifyOwner

\* C17, effect: a committed setNodeAuthorization acts on an existing record
\* that is not the owner's, for both values of the flag, and leaves the
\* owner's record, its isAuthorized flag included, as it was.
C17_Step ==
  (events' # events /\ last'.op = "setNodeAuthorization") =>
    /\ registered(last'.addr)
    /\ last'.addr # owner
    /\ owner' = owner
    /\ nodes'[owner] = nodes[owner]
    /\ nodes'[owner].isAuthorized = nodes[owner].isAuthorized
    /\ nodes'[last'.addr].isAuthorized = last'.flag

\* C17: setNodeAuthorization fails for an absent node and for the current
\* owner, for every caller and both flag values, so no setNodeAuthorization
\* call clears the owner's isAuthorized flag.
C17_OwnerProtected == [](C17_Rejected) /\ [][C17_Step]_vars

\* C17 witness: an enrollment center other than the owner exists, a third
\* node was just de-authorized by setNodeAuthorization, and the owner is
\* still authorized while the same call on the owner is rejected.
C17_Witness ==
  /\ last.op = "setNodeAuthorization"
  /\ ~last.flag
  /\ ~isAuthorizedNode(last.addr)
  /\ isAuthorizedNode(owner)
  /\ \E c \in Callers :
       /\ c # owner
       /\ canEnroll(c)
       /\ setNodeAuthorizationRevert(c, owner) = ErrModifyOwner
       /\ \E a \in Addresses :
            setNodeAuthorizationRevert(c, a) = ErrNodeNotFound

\* the event type each mutating function emits
EventTypeOf(op) ==
  CASE op = "enrollSubject" -> "SubjectEnrolled"
    [] op = "updateSubject" -> "SubjectUpdated"
    [] op = "deactivateSubject" -> "SubjectDeactivated"
    [] op = "reactivateSubject" -> "SubjectReactivated"
    [] op = "registerNode" -> "NodeRegistered"
    [] op = "setNodeAuthorization" -> "NodeStatusChanged"
    [] op = "logAuthentication" -> "AuthenticationLogged"
    [] op = "transferOwnership" -> "OwnershipTransferred"
    [] OTHER -> "none"

SubjectEventTypes ==
  {"SubjectEnrolled", "SubjectUpdated", "SubjectDeactivated",
   "SubjectReactivated", "AuthenticationLogged"}

\* the event carries the key the receipt's transaction acted on
CarriesKey(e, r) ==
  CASE e.type \in SubjectEventTypes -> e.subjectId = r.subjectId
    [] e.type \in {"NodeRegistered", "NodeStatusChanged"} ->
         e.nodeAddress = r.addr
    [] e.type = "OwnershipTransferred" -> e.newOwner = r.addr
    [] OTHER -> FALSE

\* the values of the address-typed fields of an event
AddressFields(e) ==
  CASE e.type = "SubjectEnrolled" -> {e.enrolledBy}
    [] e.type = "SubjectUpdated" -> {e.updatedBy}
    [] e.type = "SubjectDeactivated" -> {e.deactivatedBy}
    [] e.type = "SubjectReactivated" -> {e.reactivatedBy}
    [] e.type = "AuthenticationLogged" -> {e.verifier}
    [] e.type \in {"NodeRegistered", "NodeStatusChanged"} -> {e.nodeAddress}
    [] e.type = "OwnershipTransferred" -> {e.previousOwner, e.newOwner}
    [] OTHER -> {}

\* the field in which an event names the caller, for the events that have one
NamesCaller(e, c) ==
  CASE e.type = "SubjectEnrolled" -> e.enrolledBy = c
    [] e.type = "SubjectUpdated" -> e.updatedBy = c
    [] e.type = "SubjectDeactivated" -> e.deactivatedBy = c
    [] e.type = "SubjectReactivated" -> e.reactivatedBy = c
    [] e.type = "AuthenticationLogged" -> e.verifier = c
    [] e.type = "OwnershipTransferred" -> e.previousOwner = c
    [] OTHER -> TRUE

\* a committed transaction appends exactly one event, of its own type and
\* with its key, after all earlier events
AppendsOwnEvent ==
  /\ Len(events') = Len(events) + 1
  /\ events' = Append(events, events'[Len(events')])
  /\ events'[Len(events')].type = EventTypeOf(last'.op)
  /\ CarriesKey(events'[Len(events')], last')

C20_CallerStep ==
  /\ AppendsOwnEvent
  /\ last'.caller \in AddressFields(events'[Len(events')])

\* C20 as stated: every committed mutating operation appends exactly one
\* event of its own type at the end of the stream, and the event carries the
\* key the operation acted on and the caller.
C20_EventCarriesCaller == [][C20_CallerStep]_vars

C20_Step ==
  /\ AppendsOwnEvent
  /\ NamesCaller(events'[Len(events')], last'.caller)
  /\ last'.op \in {"registerNode", "setNodeAuthorization"} =>
       /\ events'[Len(events')].nodeAddress = last'.addr
       /\ DOMAIN events'[Len(events')] \in
            {{"type", "nodeId", "nodeAddress", "name", "isEnrollmentCenter",
              "timestamp"},
             {"type", "nodeAddress", "isAuthorized", "timestamp"}}

\* C20 amended: every committed mutating operation appends exactly one event
\* of its own type at the end of the stream, carrying the key it acted on;
\* the event names the caller for every operation except registerNode and
\* setNodeAuthorization, whose events carry the node's address and no caller.
C20_EventPerOperation == [][C20_Step]_vars

\* C20 witness: a node registration, an enrollment by the new node and a
\* de-authorization of that node by the owner left their three events in the
\* stream in that order, the last one naming the node and not the caller.
C20_Witness ==
  /\ Len(events) = 4
  /\ events[2].type = "NodeRegistered"
  /\ events[3].type = "SubjectEnrolled"
  /\ events[3].enrolledBy = events[2].nodeAddress
  /\ events[4].type = "NodeStatusChanged"
  /\ last.op = "setNodeAuthorization"
  /\ last.caller # last.addr
  /\ last.caller \notin AddressFields(events[4])

\* C21: for every secretKey and feature vectors x, x' with Hamming distance
\* at most the ECC threshold, verify(commitmentHash, recover(delta, x')) is
\* true for (commitmentHash, delta) = commit(secretKey, x); at any distance
\* the recovered key is accepted iff its hash equals commitmentHash, which
\* beyond the threshold is the only thing that decides.
C21_CodecRoundTrip ==
  codec.stage = "recovered" =>
    /\ codec.commitmentHash = H(codec.secretKey)
    /\ HammingDistance(codec.featureVector, codec.freshFeatureVector)
         <= ECCThreshold
       => /\ codec.accepted
          /\ codec.candidateKey = codec.secretKey
    /\ codec.accepted <=> H(codec.candidateKey) = codec.commitmentHash
    /\ codec.accepted <=> codec.candidateKey = codec.secretKey

\* C21 witness: a fresh vector exactly at the threshold distance (not equal
\* to the enrolled one) was recovered to the committed key and accepted.
C21_Witness ==
  /\ codec.stage = "recovered"
  /\ ECCThreshold > 0
  /\ HammingDistance(codec.featureVector, codec.freshFeatureVector)
       = ECCThreshold
  /\ codec.secretKey # ZeroKey
  /\ codec.featureVector # ZeroVector
  /\ codec.accepted

\* C22, acceptance and rejection: for a caller with canEnroll and an existing
\* active subject, updateSubject does not revert when the hash is non-zero
\* and reverts with "invalid commitment hash" when it is zero; the stored
\* commitmentHash of an existing subject is never zero.
C22_Accepted ==
  /\ \A c \in Callers, id \in SubjectIds, h \in Hashes :
       (canEnroll(c) /\ subjectExists[id] /\ subjects[id].isActive) =>
         updateSubjectRevert(c, id, h) = IF h = 0 THEN ErrInvalidHash ELSE OK
  /\ \A id \in SubjectIds :
       subjectExists[id] => subjects[id].commitmentHash # 0

\* C22, effect: a committed updateSubject(id, h, delta, ref) sets
\* commitmentHash to h and updatedAt to the block time and may change delta
\* and templateCID of subject id, and nothing else: isActive, enrolledBy,
\* enrolledAt, biometricType, every other subject, every Node record (the
\* enroller's enrollmentCount with it) and all counters stay; afterwards
\* verifyCommitment(id, h) is true and verifyCommitment(id, oldHash) is false
\* when oldHash # h, for every authorized caller.
C22_Step ==
  (events' # events /\ last'.op = "updateSubject") =>
    \A id \in SubjectIds, h \in Hashes :
      (id = last'.subjectId /\ h = last'.hash) =>
        /\ h # 0
        /\ canEnroll(last'.caller)
        /\ subjectExists[id] /\ subjects[id].isActive
        /\ subjects'[id].commitmentHash = h
        /\ subjects'[id].updatedAt = now'
        /\ subjects'[id] = [subjects[id] EXCEPT
             !.commitmentHash = h,
             !.delta = subjects'[id].delta,
             !.templateCID = subjects'[id].templateCID,
             !.updatedAt = now']
        /\ subjects'[id].isActive = subjects[id].isActive
        /\ identity(subjects'[id]) = identity(subjects[id])
        /\ \A other \in SubjectIds :
             other # id => subjects'[other] = subjects[other]
        /\ nodes' = nodes
        /\ nodes'[subjects[id].enrolledBy].enrollmentCount =
             nodes[subjects[id].enrolledBy].enrollmentCount
        /\ <<totalSubjects, totalNodes, totalAuthRecords>>' =
             <<totalSubjects, totalNodes, totalAuthRecords>>
        /\ <<subjectExists, nodeEnrollments, allSubjectIds>>' =
             <<subjectExists, nodeEnrollments, allSubjectIds>>
        /\ \A c \in Callers :
             authorized(c) =>
               /\ verifyCommitment(c, id, h)' = View(OK, TRUE)
               /\ \A oldHash \in Hashes :
                    (oldHash = subjects[id].commitmentHash /\ oldHash # h)
                      => verifyCommitment(c, id, oldHash)' = View(OK, FALSE)

\* C22: updateSubject by a caller with canEnroll on an existing active
\* subject with a non-zero hash overwrites exactly the commitment fields and
\* updatedAt; with a zero hash it is rejected, so no existing subject has a
\* zero commitmentHash.
C22_UpdateSubject == [](C22_Accepted) /\ [][C22_Step]_vars

\* C22 witness: a subject was just updated to a different hash and payload
\* by an enrollment center while its enroller has enrollmentCount 1.
C22_Witness ==
  /\ last.op = "updateSubject"
  /\ last.hash # last.pre.commitmentHash
  /\ subjects[last.subjectId].delta # last.pre.delta
  /\ subjects[last.subjectId].commitmentHash = last.hash
  /\ subjects[last.subjectId].updatedAt # subjects[last.subjectId].enrolledAt
  /\ nodes[subjects[last.subjectId].enrolledBy].enrollmentCount = 1

\* C23: for every caller with canEnroll, whoever enrolled the subject,
\* deactivateSubject and reactivateSubject do not revert on an existing
\* subject, active or not, and revert with "subject not found" on an id that
\* was never enrolled; right after a committed deactivateSubject the subject
\* is inactive and right after a committed reactivateSubject it is active,
\* whatever isActive was before.
C23_ExistenceOnly ==
  /\ \A c \in Callers, id \in SubjectIds :
       canEnroll(c) =>
         /\ deactivateSubjectRevert(c, id) =
              IF subjectExists[id] THEN OK ELSE ErrNotFound
         /\ reactivateSubjectRevert(c, id) =
              IF subjectExists[id] THEN OK ELSE ErrNotFound
  /\ last.op = "deactivateSubject" =>
       /\ subjectExists[last.subjectId]
       /\ ~subjects[last.subjectId].isActive
       /\ checkSubjectStatus(last.subjectId) = <<TRUE, FALSE>>
  /\ last.op = "reactivateSubject" =>
       /\ subjectExists[last.subjectId]
       /\ subjects[last.subjectId].isActive
       /\ checkSubjectStatus(last.subjectId) = <<TRUE, TRUE>>

\* C23 witness: an enrollment center other than the enroller has just
\* reactivated a subject that was already active, while another id was never
\* enrolled.
C23_Witness ==
  /\ last.op = "reactivateSubject"
  /\ last.pre.isActive
  /\ subjects[last.subjectId].isActive
  /\ last.caller # subjects[last.subjectId].enrolledBy
  /\ \E id \in SubjectIds :
       reactivateSubjectRevert(last.caller, id) = ErrNotFound

\* C24: checkSubjectStatus(id), which has no access modifier and so answers
\* every caller, returns (false, false) for an id that was never enrolled,
\* (true, true) for an active subject and (true, false) for a deactivated
\* one; its result is that pair of booleans and nothing else.
C24_Status ==
  \A id \in SubjectIds :
    /\ checkSubjectStatus(id) \in BOOLEAN \X BOOLEAN
    /\ checkSubjectStatus(id) =
         IF ~subjectExists[id] THEN <<FALSE, FALSE>>
         ELSE IF subjects[id].isActive THEN <<TRUE, TRUE>>
         ELSE <<TRUE, FALSE>>
    /\ id \notin {EnrolledEvents[i].subjectId : i \in 1..Len(EnrolledEvents)}
         => checkSubjectStatus(id) = <<FALSE, FALSE>>

\* C24 witness: one id was never enrolled, one subject is active and one is
\* deactivated, so all three answers occur in one state.
C24_Witness ==
  \E a, b, c \in SubjectIds :
    /\ checkSubjectStatus(a) = <<FALSE, FALSE>>
    /\ checkSubjectStatus(b) = <<TRUE, TRUE>>
    /\ checkSubjectStatus(c) = <<TRUE, FALSE>>
    /\ last.op = "deactivateSubject"

\* the OwnershipTransferred events, in the order they were emitted
TransferEvents ==
  SelectSeq(events, LAMBDA e : e.type = "OwnershipTransferred")

\* C25: transferOwnership reverts for every caller other than the current
\* owner (an authorized enrollment center or a previous owner included) and
\* for the null address as newOwner; the owner is the deployer until the
\* first committed transferOwnership and afterwards the newOwner of the
\* latest one, each of which was called by the owner of its time.
C25_OwnerOnly ==
  LET transfers == TransferEvents
  IN /\ \A c \in Callers :
          /\ c # owner =>
               \A a \in Addresses : transferOwnershipRevert(c, a) = ErrNotOwner
          /\ transferOwnershipRevert(c, NullAddress) # OK
     /\ transferOwnershipRevert(owner, NullAddress) = ErrInvalidNewOwner
     /\ owner = IF transfers = <<>> THEN Deployer
                ELSE transfers[Len(transfers)].newOwner
     /\ \A i \in 1..Len(transfers) :
          /\ transfers[i].newOwner # NullAddress
          /\ transfers[i].previousOwner =
               IF i = 1 THEN Deployer ELSE transfers[i - 1].newOwner
     /\ last.op = "transferOwnership" =>
          /\ last.caller = transfers[Len(transfers)].previousOwner
          /\ last.addr = owner

\* C25 witness: after a transfer, the previous owner and an authorized
\* enrollment center are both different from the owner and both rejected.
C25_Witness ==
  /\ last.op = "transferOwnership"
  /\ last.caller # owner
  /\ \E c \in Callers :
       /\ c # owner
       /\ c # last.caller
       /\ canEnroll(c)
       /\ \A a \in Addresses :
            /\ transferOwnershipRevert(c, a) = ErrNotOwner
            /\ transferOwnershipRevert(last.caller, a) = ErrNotOwner

C26_Step ==
  (events' # events /\ last'.op = "transferOwnership") =>
    /\ nodes'[last'.addr] = [nodes[owner] EXCEPT !.nodeAddress = last'.addr]
    /\ nodes'[owner'].nodeAddress = owner'

\* C26 as stated: after every committed transferOwnership(newOwner) the Node
\* record at newOwner is the record the previous owner held right before the
\* call with only its address field set to newOwner, so the record was moved
\* and not lost.
C26_RecordMoved == [][C26_Step]_vars

\* the addresses that occur in the node-address enumeration
Enumerated == {allNodeAddresses[i] : i \in 1..Len(allNodeAddresses)}

\* C27, state: every address that holds a Node record occurs in the
\* node-address enumeration, and so does every address that was ever owner.
C27_HoldersEnumerated ==
  /\ NodeHolders \subseteq Enumerated
  /\ owner \in Enumerated
  /\ \A i \in 1..Len(TransferEvents) :
       TransferEvents[i].previousOwner \in Enumerated

\* C27, step: no step removes or reorders an entry of the enumeration, and a
\* committed transferOwnership(newOwner) appends exactly newOwner, the old
\* owner's address staying where it was.
C27_Step ==
  /\ Len(allNodeAddresses') >= Len(allNodeAddresses)
  /\ SubSeq(allNodeAddresses', 1, Len(allNodeAddresses)) = allNodeAddresses
  /\ last'.op = "transferOwnership" =>
       /\ allNodeAddresses' = Append(allNodeAddresses, last'.addr)
       /\ owner \in {allNodeAddresses'[i] : i \in 1..Len(allNodeAddresses')}

\* C27: each committed transferOwnership appends newOwner to the node-address
\* enumeration and nothing is ever removed from it; every address holding a
\* Node record occurs in it.
C27_EnumerationGrows == [](C27_HoldersEnumerated) /\ [][C27_Step]_vars

\* C27 witness: after a registration and a transfer to a fresh address the
\* enumeration holds the old owner, the node and the new owner, in that
\* order, although the old owner no longer holds a record.
C27_Witness ==
  /\ last.op = "transferOwnership"
  /\ Len(allNodeAddresses) = 3
  /\ allNodeAddresses[1] = Deployer
  /\ allNodeAddresses[3] = owner
  /\ owner # Deployer
  /\ Deployer \notin NodeHolders
  /\ allNodeAddresses[2] \in NodeHolders \ {owner}

C28_Step ==
  (events' # events /\ last'.op = "transferOwnership") =>
    /\ subjects' = subjects
    /\ \A id \in SubjectIds :
         subjects'[id].enrolledBy = subjects[id].enrolledBy
    /\ subjectExists' = subjectExists
    /\ authRecords' = authRecords
    /\ <<totalSubjects, totalNodes, totalAuthRecords>>' =
         <<totalSubjects, totalNodes, totalAuthRecords>>
    /\ allSubjectIds' = allSubjectIds
    /\ nodeEnrollments' = nodeEnrollments
    /\ \A a \in Addresses :
         (a # owner /\ a # last'.addr) => nodes'[a] = nodes[a]

\* C28: a committed transferOwnership(newOwner) leaves unchanged every
\* Subject record (enrolledBy keeps naming the old owner's address), every
\* AuthRecord, the three counters, the subject enumeration, the
\* node-to-subjects index and every Node record at an address other than the
\* old owner and newOwner.
C28_TransferFrame == [][C28_Step]_vars

\* C28 witness: the owner enrolled a subject, a second node was registered,
\* and the ownership then went to a third address; the subject still names
\* the old owner, under whose address the index still lists it.
C28_Witness ==
  /\ last.op = "transferOwnership"
  /\ last.caller # owner
  /\ \E id \in SubjectIds :
       /\ subjectExists[id]
       /\ subjects[id].enrolledBy = last.caller
       /\ nodeEnrollments[last.caller] = <<id>>
       /\ nodeEnrollments[owner] = <<>>
  /\ \E a \in NodeHolders : a # owner /\ a # last.caller

\* C29, state: an address whose isAuthorized flag is false is rejected by
\* every call gated by onlyEnrollmentCenter or onlyAuthorizedNode; an address
\* whose flag is true passes onlyAuthorizedNode, and passes
\* onlyEnrollmentCenter iff its isEnrollmentCenter flag is set.
C29_Gates ==
  \A a \in Callers :
    /\ ~nodes[a].isAuthorized => AllGatedCallsRevert(a)
    /\ nodes[a].isAuthorized =>
         /\ logAuthenticationRevert(a) = OK
         /\ isAuthorizedNode(a)
         /\ isEnrollmentCenter(a) = nodes[a].isEnrollmentCenter
         /\ \A b \in Addresses :
              (registerNodeRevert(a, b) = ErrNotEC)
                <=> ~nodes[a].isEnrollmentCenter

\* C29, step: a committed setNodeAuthorization(addr, b) sets the isAuthorized
\* flag of addr's record to b and changes nothing else in the registry:
\* nodeId, name, isEnrollmentCenter and enrollmentCount of addr, every other
\* Node record, every subject (those addr enrolled stay existing, active and
\* verifiable), every auth record and all counters are as before; after
\* b = FALSE every gated call by addr is rejected, after b = TRUE addr has the
\* capabilities its isEnrollmentCenter flag gives.
C29_Step ==
  (events' # events /\ last'.op = "setNodeAuthorization") =>
    \A addr \in Callers :
      addr = last'.addr =>
        /\ nodes' = [nodes EXCEPT ![addr].isAuthorized = last'.flag]
        /\ nodes'[addr].nodeId = nodes[addr].nodeId
        /\ nodes'[addr].name = nodes[addr].name
        /\ nodes'[addr].enrollmentCount = nodes[addr].enrollmentCount
        /\ nodes'[addr].isEnrollmentCenter = nodes[addr].isEnrollmentCenter
        /\ <<owner, subjectCount, nodeCount, authRecordCount, subjects,
             authRecords, subjectExists, nodeEnrollments, allSubjectIds,
             allNodeAddresses>>' =
           <<owner, subjectCount, nodeCount, authRecordCount, subjects,
             authRecords, subjectExists, nodeEnrollments, allSubjectIds,
             allNodeAddresses>>
        /\ ~last'.flag => AllGatedCallsRevert(addr)'
        /\ last'.flag =>
             /\ authorized(addr)'
             /\ canEnroll(addr)' = nodes[addr].isEnrollmentCenter
        /\ \A id \in SubjectIds, c \in Callers :
             (subjectExists[id] /\ subjects[id].isActive
                /\ subjects[id].enrolledBy = addr /\ authorized(c)')
               => /\ checkSubjectStatus(id)' = <<TRUE, TRUE>>
                  /\ \A h \in Hashes :
                       h = subjects[id].commitmentHash
                         => verifyCommitment(c, id, h)' = View(OK, TRUE)

\* C29: setNodeAuthorization(addr, b) changes only the isAuthorized flag of
\* addr's Node record; with the flag cleared addr is rejected by every gated
\* call while its subjects stay as they were, and with the flag set addr has
\* the capabilities of its unchanged isEnrollmentCenter flag.
C29_OnlyTheFlag == [](C29_Gates) /\ [][C29_Step]_vars

\* C29 witness: an enrollment center that enrolled a subject has just been
\* de-authorized; it is rejected while its subject is still active and
\* verifiable by the owner.
C29_Witness ==
  /\ last.op = "setNodeAuthorization"
  /\ ~last.flag
  /\ nodes[last.addr].isEnrollmentCenter
  /\ nodes[last.addr].enrollmentCount = 1
  /\ AllGatedCallsRevert(last.addr)
  /\ \E id \in SubjectIds :
       /\ subjects[id].enrolledBy = last.addr
       /\ checkSubjectStatus(id) = <<TRUE, TRUE>>
       /\ verifyCommitment(owner, id, subjects[id].commitmentHash)
            = View(OK, TRUE)

\* C30, acceptance: logAuthentication does not revert for any authorized
\* caller; its only condition is the caller's isAuthorized flag, not the
\* subjectId or the reported outcome.
C30_Accepted ==
  \A c \in Callers :
    logAuthenticationRevert(c) =
      IF nodes[c].isAuthorized THEN OK ELSE ErrNotAuthorized

\* C30, effect: a committed logAuthentication(subjectId, success, reason)
\* appends one record whose verifier is the caller and whose subjectId,
\* success and reason are the arguments as given, whether or not the subject
\* exists or is active, and changes no Subject and no Node record.
C30_Step ==
  (events' # events /\ last'.op = "logAuthentication") =>
    /\ authorized(last'.caller)
    /\ totalAuthRecords' = totalAuthRecords + 1
    /\ authRecords'[totalAuthRecords'].verifier = last'.caller
    /\ authRecords'[totalAuthRecords'].subjectId = last'.subjectId
    /\ authRecords'[totalAuthRecords'].success = last'.flag
    /\ \E o \in Outcomes :
         /\ o.success = last'.flag
         /\ authRecords'[totalAuthRecords'].reason = o.reason
    /\ authRecords'[totalAuthRecords'].timestamp = now'
    /\ events'[Len(events')].success = last'.flag
    /\ subjects' = subjects
    /\ subjectExists' = subjectExists
    /\ nodes' = nodes

\* C30: logAuthentication by an authorized caller always succeeds, for any
\* subjectId and any reported outcome, records the caller as verifier and the
\* arguments verbatim, and changes no Subject or Node record.
C30_LogUnchecked == [](C30_Accepted) /\ [][C30_Step]_vars

\* C30 witness: a successful authentication was just logged for a subject
\* that is deactivated, and the record says success.
C30_Witness ==
  /\ last.op = "logAuthentication"
  /\ last.flag
  /\ checkSubjectStatus(last.subjectId) = <<TRUE, FALSE>>
  /\ authRecords[totalAuthRecords].success
  /\ authRecords[totalAuthRecords].subjectId = last.subjectId
  /\ authRecords[totalAuthRecords].verifier = last.caller

\* C31: getAuthRecord(id) by an authorized caller never reverts; for
\* 1 <= id <= totalAuthRecords it returns the record of the id-th committed
\* logAuthentication, and for id = 0 or id > totalAuthRecords it returns the
\* zero-value record (subjectId 0, null verifier, success false, empty
\* reason, timestamp 0).
C31_GetAuthRecord ==
  LET logged == LoggedEvents
  IN \A c \in Callers :
       authorized(c) =>
         \A id \in RecordIds :
           LET got == getAuthRecord(c, id)
           IN /\ got.status = OK
              /\ (1 <= id /\ id <= totalAuthRecords) =>
                   /\ id <= Len(logged)
                   /\ got.ret.subjectId = logged[id].subjectId
                   /\ got.ret.verifier = logged[id].verifier
                   /\ got.ret.success = logged[id].success
                   /\ got.ret.timestamp = logged[id].timestamp
                   /\ \E o \in Outcomes :
                        /\ o.success = logged[id].success
                        /\ got.ret.reason = o.reason
              /\ (id = 0 \/ id > totalAuthRecords) =>
                   got = View(OK, ZeroAuthRecord)

\* C31 witness: two records are stored; the owner reads the second one, and
\* gets the zero-value record for id 0 and for id 3.
C31_Witness ==
  /\ totalAuthRecords = 2
  /\ authorized(owner)
  /\ getAuthRecord(owner, 2).ret.verifier # NullAddress
  /\ getAuthRecord(owner, 2).ret # getAuthRecord(owner, 1).ret
  /\ getAuthRecord(owner, 0) = View(OK, ZeroAuthRecord)
  /\ getAuthRecord(owner, 3) = View(OK, ZeroAuthRecord)

\* C32: the rejections of updateSubject, getSubject and verifyCommitment
\* follow a fixed precedence.  A caller that lacks the required authorization
\* is told so even when the subject is missing or inactive; a caller that has
\* it gets "subject not found" for an id that was never enrolled (never "not
\* active"), "subject not active" for an existing inactive subject, and
\* updateSubject reports "invalid commitment hash" for a zero hash only when
\* the subject exists and is active.
C32_Precedence ==
  \A c \in Callers, id \in SubjectIds :
    /\ ~authorized(c) =>
         /\ getSubject(c, id).status = ErrNotAuthorized
         /\ \A h \in Hashes :
              verifyCommitment(c, id, h).status = ErrNotAuthorized
    /\ authorized(c) =>
         /\ ~subjectExists[id] =>
              /\ getSubject(c, id).status = ErrNotFound
              /\ \A h \in Hashes :
                   verifyCommitment(c, id, h).status = ErrNotFound
         /\ (subjectExists[id] /\ ~subjects[id].isActive) =>
              /\ getSubject(c, id).status = ErrNotActive
              /\ \A h \in Hashes :
                   verifyCommitment(c, id, h).status = ErrNotActive
    /\ ~canEnroll(c) =>
         \A h \in Hashes : updateSubjectRevert(c, id, h) = ErrNotEC
    /\ canEnroll(c) =>
         /\ ~subjectExists[id] =>
              \A h \in Hashes : updateSubjectRevert(c, id, h) = ErrNotFound
         /\ (subjectExists[id] /\ ~subjects[id].isActive) =>
              \A h \in Hashes : updateSubjectRevert(c, id, h) = ErrNotActive
         /\ (subjectExists[id] /\ subjects[id].isActive) =>
              \A h \in Hashes :
                (updateSubjectRevert(c, id, h) = ErrInvalidHash) <=> (h = 0)

\* C32 witness: one subject is deactivated and another id was never
\* enrolled, so that for the enrollment center a zero hash is reported as
\* "not active" and "not found", and an unauthorized caller is refused for
\* both ids.
C32_Witness ==
  \E c, u \in Callers, id, missing \in SubjectIds :
    /\ canEnroll(c) /\ ~authorized(u)
    /\ subjectExists[id] /\ ~subjects[id].isActive
    /\ ~subjectExists[missing]
    /\ updateSubjectRevert(c, id, 0) = ErrNotActive
    /\ updateSubjectRevert(c, missing, 0) = ErrNotFound
    /\ getSubject(c, missing).status = ErrNotFound
    /\ getSubject(u, id).status = ErrNotAuthorized
    /\ updateSubjectRevert(u, missing, 0) = ErrNotEC

\* C33 as stated: in every reachable state the current owner's address holds
\* a Node record with isAuthorized = TRUE and isEnrollmentCenter = TRUE.
C33_OwnerIsEnrollmentCenter ==
  /\ nodes[owner].nodeAddress = owner
  /\ nodes[owner].isAuthorized
  /\ nodes[owner].isEnrollmentCenter

\* C34 as stated: in every reachable state at least one address satisfies
\* canEnroll, and that caller can enroll every fresh subject and register
\* every fresh address.
C34_NeverLockedOut ==
  \E c \in Callers :
    /\ canEnroll(c)
    /\ \A id \in SubjectIds, h \in Hashes :
         (id # 0 /\ h # 0 /\ ~subjectExists[id])
           => enrollSubjectRevert(c, id, h) = OK
    /\ \A a \in Addresses :
         (a # NullAddress /\ ~registered(a)) => registerNodeRevert(c, a) = OK

\* the sum of f[a] over the addresses in S
RECURSIVE SumOver(_, _)
SumOver(f, S) ==
  IF S = {} THEN 0
  ELSE LET a == CHOOSE x \in S : TRUE IN f[a] + SumOver(f, S \ {a})

\* the subjects whose enrolledBy is address a
EnrolledBy(a) ==
  {id \in SubjectIds : subjectExists[id] /\ subjects[id].enrolledBy = a}

\* address a was the old or the new owner of some committed transferOwnership
TransferParty(a) ==
  LET transfers == TransferEvents
  IN \E i \in 1..Len(transfers) :
       a \in {transfers[i].previousOwner, transfers[i].newOwner}

C36_WellFormed ==
  \A id \in SubjectIds :
    /\ subjects[id].isActive => subjectExists[id]
    /\ ~subjectExists[id] =>
         /\ checkSubjectStatus(id) = <<FALSE, FALSE>>
         /\ subjects[id] = ZeroSubject
         /\ material(subjects[id]) = <<0, "", "">>
    /\ subjectExists[id] =>
         /\ id # 0
         /\ subjects[id].subjectId = id
         /\ subjects[id].commitmentHash # 0
         /\ subjects[id].enrolledBy # NullAddress
         /\ \E i \in 1..Len(EnrolledEvents) :
              /\ EnrolledEvents[i].subjectId = id
              /\ EnrolledEvents[i].enrolledBy = subjects[id].enrolledBy

\* C36, step: the enrolledBy of a subject is the caller of the enrollSubject
\* that created it, and that caller satisfied canEnroll when it was called.
C36_Step ==
  \A id \in SubjectIds :
    (~subjectExists[id] /\ subjectExists'[id]) =>
      /\ last'.op = "enrollSubject"
      /\ last'.subjectId = id
      /\ subjects'[id].enrolledBy = last'.caller
      /\ canEnroll(subjects'[id].enrolledBy)

\* C36: only existing subjects are active or hold commitment material, and
\* every existing subject has a non-zero id, a non-zero commitmentHash and an
\* enroller that held canEnroll when it enrolled the subject.
C36_SubjectsWellFormed == [](C36_WellFormed) /\ [][C36_Step]_vars

\* C36 witness: a subject exists whose enroller has since lost canEnroll,
\* next to a non-zero id that was never enrolled.
C36_Witness ==
  \E id, missing \in SubjectIds :
    /\ subjectExists[id]
    /\ subjects[id].isActive
    /\ ~canEnroll(subjects[id].enrolledBy)
    /\ missing # 0
    /\ ~subjectExists[missing]
    /\ subjects[missing] = ZeroSubject

\* an authorized node without the enrollment-center flag
authenticationOnly(x) == nodes[x].isAuthorized /\ ~nodes[x].isEnrollmentCenter

\* C37, state: an authentication-only node is rejected by registerNode and
\* setNodeAuthorization, and by transferOwnership unless it is the owner.
C37_NoGrantingCall ==
  \A x \in Callers :
    authenticationOnly(x) =>
      /\ ~canEnroll(x)
      /\ \A a \in Addresses :
           /\ registerNodeRevert(x, a) = ErrNotEC
           /\ setNodeAuthorizationRevert(x, a) = ErrNotEC
           /\ x # owner => transferOwnershipRevert(x, a) = ErrNotOwner

\* C37, step: the isEnrollmentCenter flag stored at an address changes only
\* when the record is created by registerNode for a fresh address, called by
\* an enrollment center, or written or deleted by transferOwnership, called
\* by the owner; it becomes TRUE only for the fresh address of a registerNode
\* or the newOwner of a transferOwnership.  A transaction sent by a caller
\* without canEnroll (an authentication-only node included) is a
\* logAuthentication, or a transferOwnership if the caller is the owner, and
\* leaves the sender without canEnroll and every address without the flag
\* without it.
C37_Step ==
  /\ \A a \in Addresses :
       nodes'[a].isEnrollmentCenter # nodes[a].isEnrollmentCenter =>
         \/ /\ last'.op = "registerNode"
            /\ last'.addr = a
            /\ ~registered(a)
            /\ nodes'[a].isEnrollmentCenter = last'.flag
            /\ canEnroll(last'.caller)
         \/ /\ last'.op = "transferOwnership"
            /\ last'.caller = owner
            /\ a \in {owner, last'.addr}
            /\ nodes'[a].isEnrollmentCenter => a = last'.addr
  /\ \A a \in Addresses :
       (registered(a) /\ last'.op # "transferOwnership") =>
         nodes'[a].isEnrollmentCenter = nodes[a].isEnrollmentCenter
  /\ \A x \in Callers :
       (~canEnroll(x) /\ last'.caller = x) =>
         /\ last'.op \in {"logAuthentication", "transferOwnership"}
         /\ last'.op = "logAuthentication" => nodes' = nodes /\ owner' = owner
         /\ last'.op = "transferOwnership" => x = owner
         /\ ~canEnroll(x)'
         /\ \A a \in Addresses :
              nodes'[a].isEnrollmentCenter => nodes[a].isEnrollmentCenter

\* C37: the isEnrollmentCenter flag of a Node record is fixed at
\* registration; nothing an authentication-only node can itself do gives it
\* canEnroll; an address gets the flag only by registerNode for a fresh
\* address or by transferOwnership naming it, called by an enrollment center
\* and the owner respectively.
C37_NoEscalation == [](C37_NoGrantingCall) /\ [][C37_Step]_vars

\* C37 witness: an authentication-only node has just logged an
\* authentication and is still rejected by registerNode.
C37_Witness ==
  /\ last.op = "logAuthentication"
  /\ authenticationOnly(last.caller)
  /\ ~canEnroll(last.caller)
  /\ \E a \in Addresses :
       /\ a # NullAddress
       /\ ~registered(a)
       /\ registerNodeRevert(last.caller, a) = ErrNotEC

====
